---- MODULE Spec2Model ----
(***************************************************************************)
(* Simple8b integer compression with its delta and zig-zag companions      *)
(* (src/simple8b.cpp, src/simple8b.h).                                     *)
(*                                                                         *)
(* A machine word is modelled as the set of the positions of its one bits  *)
(* (bit 0 is the least significant): the word 5 is {0, 2}, the word 0 is   *)
(* {}.  Shifts, masks, or and xor are exact at every width up to 64; no    *)
(* 64-bit quantity is ever held in an integer of the model.                *)
(***************************************************************************)
EXTENDS Integers, Sequences, FiniteSets

(***************************************************************************)
(* Bit-level arithmetic on words.                                          *)
(***************************************************************************)

\* uint64_t has 64 bits (the type of every packed word, src/simple8b.cpp:16).
WordBits == 64

\* x << n on a uint64_t: bits shifted past bit 63 are lost.
Shl(x, n) == {b + n : b \in {c \in x : c + n < WordBits}}

\* x >> n on an unsigned word.
Shr(x, n) == {b - n : b \in {c \in x : c >= n}}

\* (1ULL << w) - 1
Mask(w) == 0 .. (w - 1)

\* x >= (1ULL << w), for w < 64
AtLeastPow2(x, w) == \E b \in x : b >= w

\* The word whose value is the small number k (0 <= k < 16).
Nibble(k) == {b \in 0 .. 3 : (k \div (2 ^ b)) % 2 = 1}

\* The number held in the four low bits of x.
NibbleValue(x) ==
    (IF 0 \in x THEN 1 ELSE 0) + (IF 1 \in x THEN 2 ELSE 0)
  + (IF 2 \in x THEN 4 ELSE 0) + (IF 3 \in x THEN 8 ELSE 0)

Min(a, b) == IF a < b THEN a ELSE b

(***************************************************************************)
(* The sixteen packing schemes, as the template arguments of the branches  *)
(* of Simple8bEncode and the cases of Simple8bDecode give them.            *)
(***************************************************************************)

SIMPLE8B_SELECTOR_BITS == 4

SchemeCount == <<240, 120, 60, 30, 20, 15, 12, 10, 8, 7, 6, 5, 4, 3, 2, 1>>
SchemeWidth == <<0, 0, 1, 2, 3, 4, 5, 6, 7, 8, 10, 12, 15, 20, 30, 60>>

CountOf(s) == SchemeCount[s + 1]
WidthOf(s) == SchemeWidth[s + 1]

Selectors == 0 .. 15

\* The value NoScheme stands for the final, empty else branch.
NoScheme == 16


(***************************************************************************)
(* State.                                                                  *)
(***************************************************************************)

VARIABLES
    mode,                 \* which entry points this behaviour exercises
    T,                    \* bit width of the template's integer type T
    input,                \* Simple8bEncode: the caller's input buffer
    pc,                   \* position of the control in the call under way
    ValuesRemaining,      \* Simple8bEncode: local of that name
    NumberOfValuesCoded,  \* Simple8bEncode: local of that name
    inPos,                \* Simple8bEncode: input - (initial input)
    outbuf,               \* Simple8bEncode: the words stored, out - initout = Len
    lastSel,              \* branch taken by the latest encoder iteration
    lastPos,              \* value of inPos when that iteration began
    encRet,               \* Simple8bEncode: value returned
    stream,               \* Simple8bDecode: the words read so far or to be read
    uncompressedLength,   \* Simple8bDecode: parameter of that name
    inIdx,                \* Simple8bDecode: in - input
    decoded,              \* Simple8bDecode: the values stored, out - initout = Len
    decRet,               \* Simple8bDecode: value returned
    lastWord,             \* word read by the latest decoder iteration
    lastLeft,             \* end - out when that iteration began
    lastLoop,             \* the loop that iteration belongs to
    buffer,               \* Delta/ZigZag: the caller's buffer
    original,             \* Delta/ZigZag: the buffer as first handed over
    history               \* Delta/ZigZag: the calls made so far, in order

vars == <<mode, T, input, pc, ValuesRemaining, NumberOfValuesCoded, inPos,
          outbuf, lastSel, lastPos, encRet, stream, uncompressedLength, inIdx,
          decoded, decRet, lastWord, lastLeft, lastLoop, buffer, original, history>>

encVars == <<ValuesRemaining, NumberOfValuesCoded, inPos, outbuf, lastSel, lastPos,
            encRet>>
decVars == <<stream, uncompressedLength, inIdx, decoded, decRet, lastWord, lastLeft,
            lastLoop>>
xformVars == <<buffer, original, history>>

(***************************************************************************)
(* Fit checks and bit packing (src/simple8b.cpp:15-46).                    *)
(***************************************************************************)

\* *out = (*out << numBits) | value
WriteBits(out, value, numBits) == Shl(out, numBits) \cup value

\* Faulty variant of TryPackFast: the check is made at every width, 60 included.
TryPackFastChecked(numIntegers, numBitsPerInt, in, pos) ==
    \A i \in 0 .. (numIntegers - 1) : ~AtLeastPow2(in[pos + i + 1], numBitsPerInt)

\* TryPackFast<numIntegers, numBitsPerInt>(n), n = in + pos (0-based offset).
TryPackFast(numIntegers, numBitsPerInt, in, pos) ==
    IF numBitsPerInt >= 32
    THEN TRUE
    ELSE \A i \in 0 .. (numIntegers - 1) :
            ~AtLeastPow2(in[pos + i + 1], numBitsPerInt)

\* Faulty variant of TryPackCareful: the loop stops one value short (i < minv - 1).
TryPackCarefulSkipLast(numIntegers, numBitsPerInt, in, pos, maxIntegers) ==
    IF numBitsPerInt >= 32
    THEN TRUE
    ELSE LET minv == IF maxIntegers < numIntegers THEN maxIntegers ELSE numIntegers
         IN  \A i \in 0 .. (minv - 2) :
                ~AtLeastPow2(in[pos + i + 1], numBitsPerInt)

\* TryPackCareful<numIntegers, numBitsPerInt>(n, maxIntegers)
TryPackCareful(numIntegers, numBitsPerInt, in, pos, maxIntegers) ==
    IF numBitsPerInt >= 32
    THEN TRUE
    ELSE LET minv == IF maxIntegers < numIntegers THEN maxIntegers ELSE numIntegers
         IN  \A i \in 0 .. (minv - 1) :
                ~AtLeastPow2(in[pos + i + 1], numBitsPerInt)

\* The for loop of a branch with selector s, coding n values of the given
\* width from pos on:
\*     out[0] = s; for (i = 0; i < n; i++) WriteBits(out, *input++, width);
\* Iteration k (from 0) shifts all that was written before by width and ors
\* value k in, so after the loop the selector has been shifted n times and
\* value k has been shifted n - 1 - k times; a bit shifted past bit 63 at any
\* iteration is lost.  The loop is written out as that or of shifted terms.
WriteLoop(s, in, pos, n, width) ==
    UNION ({Shl(Nibble(s), width * n)}
           \cup {Shl(WriteBits({}, in[pos + k + 1], width), width * (n - 1 - k)) :
                    k \in 0 .. (n - 1)})

\* Faulty variant of PackedWord: the final shift uses the scheme's nominal count, as
\* the branches of the first loop do, whatever the number of values coded.
PackedWordNominalShift(s, in, pos, n) ==
    IF s = 0 THEN {}
    ELSE IF s = 1 THEN Shl(Nibble(1), WordBits - SIMPLE8B_SELECTOR_BITS)
    ELSE Shl(WriteLoop(s, in, pos, n, WidthOf(s)),
             WordBits - SIMPLE8B_SELECTOR_BITS - WidthOf(s) * CountOf(s))

\* The word a branch with selector s stores after coding n values at pos:
\* out[0] = s; the write loop; out[0] <<= 64 - SIMPLE8B_SELECTOR_BITS - width * n.
\* The two width-0 branches store 0 and 1ULL << 60 outright.
PackedWord(s, in, pos, n) ==
    IF s = 0 THEN {}
    ELSE IF s = 1 THEN Shl(Nibble(1), WordBits - SIMPLE8B_SELECTOR_BITS)
    ELSE Shl(WriteLoop(s, in, pos, n, WidthOf(s)),
             WordBits - SIMPLE8B_SELECTOR_BITS - WidthOf(s) * n)


(***************************************************************************)
(* Simple8bEncode (src/simple8b.cpp:99-401), one action per loop iteration.*)
(***************************************************************************)

\* Faulty variant of FastBranch: the second width-0 check looks at input again, not
\* at input + 120.
FastBranchSameHalf(in, pos) ==
    IF TryPackFast(120, 0, in, pos)
    THEN IF TryPackFast(120, 0, in, pos) THEN 0 ELSE 1
    ELSE LET passing == {s \in 2 .. 15 : TryPackFast(CountOf(s), WidthOf(s), in, pos)}
         IN  IF passing = {} THEN NoScheme
             ELSE CHOOSE s \in passing : \A t \in passing : s <= t

\* The if / else-if chain of the first loop: the selector of the first branch
\* whose fit check passes, NoScheme for the final else.  The chain opens with
\* TryPackFast<120, 0>(input), then TryPackFast<120, 0>(input + 120).
FastBranch(in, pos) ==
    IF TryPackFast(120, 0, in, pos)
    THEN IF TryPackFast(120, 0, in, pos + 120) THEN 0 ELSE 1
    ELSE LET passing == {s \in 2 .. 15 : TryPackFast(CountOf(s), WidthOf(s), in, pos)}
         IN  IF passing = {} THEN NoScheme
             ELSE CHOOSE s \in passing : \A t \in passing : s <= t

\* The chain of the second loop, every check clamped to ValuesRemaining.
CarefulBranch(in, pos, remaining) ==
    LET passing == {s \in Selectors :
                      TryPackCareful(CountOf(s), WidthOf(s), in, pos, remaining)}
    IN  IF passing = {} THEN NoScheme
        ELSE CHOOSE s \in passing : \A t \in passing : s <= t

\* Faulty variant of CarefulCount: (ValuesRemaining <= count) ? ValuesRemaining - 1 : count
CarefulCountShort(s, remaining) ==
    IF remaining <= CountOf(s) THEN remaining - 1 ELSE CountOf(s)

\* NumberOfValuesCoded = (ValuesRemaining < count) ? ValuesRemaining : count
CarefulCount(s, remaining) ==
    IF remaining < CountOf(s) THEN remaining ELSE CountOf(s)

\* What the caller's output buffer may hold in a slot nothing was stored to.
Uninitialised == {{}, Mask(WordBits)}

\* The tail shared by both loops: the word of branch s coding n values is
\* stored (no store at all in the else branch), then ++out and
\* ValuesRemaining -= NumberOfValuesCoded.  In the else branch the count is
\* the stale one; a size_t that would pass below zero wraps to a length no
\* buffer has, and the call is not followed further (pc = "encWrapped").
EncodeIteration(s, n, nextpc) ==
    /\ lastSel' = s
    /\ lastPos' = inPos
    /\ NumberOfValuesCoded' = n
    /\ IF s = NoScheme
       THEN /\ \E g \in Uninitialised : outbuf' = Append(outbuf, g)
            /\ inPos' = inPos
       ELSE /\ outbuf' = Append(outbuf, PackedWord(s, input, inPos, n))
            /\ inPos' = inPos + n
    /\ IF n <= ValuesRemaining
       THEN ValuesRemaining' = ValuesRemaining - n /\ pc' = nextpc
       ELSE ValuesRemaining' = ValuesRemaining /\ pc' = "encWrapped"
    /\ UNCHANGED <<mode, T, input, encRet, decVars, xformVars>>

\* while (ValuesRemaining >= 240) { ... }
EncodeFast ==
    /\ pc = "encFast"
    /\ ValuesRemaining >= 240
    /\ LET s == FastBranch(input, inPos)
       IN  EncodeIteration(s, IF s = NoScheme THEN NumberOfValuesCoded ELSE CountOf(s),
                           "encFast")

\* while (ValuesRemaining > 0) { ... }, entered once the first loop is left.
EncodeCareful ==
    /\ \/ pc = "encFast" /\ ValuesRemaining < 240
       \/ pc = "encCareful"
    /\ ValuesRemaining > 0
    /\ LET s == CarefulBranch(input, inPos, ValuesRemaining)
       IN  EncodeIteration(s, IF s = NoScheme THEN NumberOfValuesCoded
                                              ELSE CarefulCount(s, ValuesRemaining),
                           "encCareful")

\* return (out) - initout;
EncodeReturn ==
    /\ \/ pc = "encFast" /\ ValuesRemaining < 240
       \/ pc = "encCareful"
    /\ ValuesRemaining = 0
    /\ encRet' = Len(outbuf)
    /\ pc' = "encoded"
    /\ UNCHANGED <<mode, T, input, ValuesRemaining, NumberOfValuesCoded, inPos,
                   outbuf, lastSel, lastPos, decVars, xformVars>>


(***************************************************************************)
(* Simple8bDecode (src/simple8b.cpp:48-97, 403-525), one action per loop   *)
(* iteration.                                                              *)
(***************************************************************************)

\* static_cast<T>(x): the low T bits of x.
CastT(x, width) == x \cap Mask(width)

\* GetSelectorNum: (*in) >> (64 - SIMPLE8B_SELECTOR_BITS)
GetSelectorNum(word) == NibbleValue(Shr(word, WordBits - SIMPLE8B_SELECTOR_BITS))

\* Faulty variant of UnpackOne: the "& mask" is left out.
UnpackOneUnmasked(word, numBitsPerInt, k, width) ==
    CastT(Shr(word, WordBits - SIMPLE8B_SELECTOR_BITS - numBitsPerInt
                    - k * numBitsPerInt), width)

\* One iteration of the loops of UnpackFast / UnpackCareful, k counted from 0:
\* static_cast<T>(in[0] >> (64 - 4 - numBitsPerInt - k * numBitsPerInt)) & mask
UnpackOne(word, numBitsPerInt, k, width) ==
    CastT(CastT(Shr(word, WordBits - SIMPLE8B_SELECTOR_BITS - numBitsPerInt
                          - k * numBitsPerInt), width)
          \cap Mask(numBitsPerInt), width)

\* The numIntegers values UnpackFast / UnpackCareful store through out.
Unpack(numIntegers, numBitsPerInt, word, width) ==
    [k \in 1 .. numIntegers |-> UnpackOne(word, numBitsPerInt, k - 1, width)]

\* The word in[0].  After a call of Simple8bEncode the stream is the words it
\* stored, and a read past them finds whatever the buffer holds; a stream
\* handed over directly is the word pattern it was built from, repeated.
WordsAt ==
    IF mode = "decode" THEN {stream[(inIdx % Len(stream)) + 1]}
    ELSE IF inIdx < Len(stream) THEN {stream[inIdx + 1]}
    ELSE Uninitialised

\* end - out
SlotsLeft == uncompressedLength - Len(decoded)

\* switch (GetSelectorNum(in)) of the first loop: UnpackFast<count, width>.
FastUnpacked(word) ==
    LET s == GetSelectorNum(word)
    IN  Unpack(CountOf(s), WidthOf(s), word, T)

\* Faulty variant of CarefulUnpacked: the count is not clamped to end - out.
CarefulUnpackedUnclamped(word, left) ==
    LET s == GetSelectorNum(word)
    IN  Unpack(CountOf(s), WidthOf(s), word, T)

\* Faulty variant of CarefulUnpacked: the count is clamped to end - initout, the
\* whole outputLength, not to what is left of it.
CarefulUnpackedWholeLength(word, left) ==
    LET s == GetSelectorNum(word)
    IN  Unpack(IF s = 15 THEN 1 ELSE Min(uncompressedLength, CountOf(s)),
               WidthOf(s), word, T)

\* switch (GetSelectorNum(in)) of the second loop:
\* UnpackCareful<width>(std::min<uint32_t>(end - out, count), out, in),
\* and UnpackCareful<60>(1, out, in) for selector 15.
CarefulUnpacked(word, left) ==
    LET s == GetSelectorNum(word)
    IN  Unpack(IF s = 15 THEN 1 ELSE Min(left, CountOf(s)), WidthOf(s), word, T)

\* Faulty variant of FastLoopGuard: end > out, the condition of the second loop.
FastLoopGuardNoMargin(left) == left > 0

\* end > out + 240, the condition of the first loop, in terms of end - out.
FastLoopGuard(left) == left > 240

\* while (end > out + 240) { ... }
DecodeFast ==
    /\ pc = "decFast"
    /\ FastLoopGuard(SlotsLeft)
    /\ \E w \in WordsAt : decoded' = decoded \o FastUnpacked(w) /\ lastWord' = w
    /\ inIdx' = inIdx + 1
    /\ lastLeft' = SlotsLeft
    /\ lastLoop' = "fast"
    /\ UNCHANGED <<mode, T, input, pc, encVars, stream, uncompressedLength,
                   decRet, xformVars>>

\* while (end > out) { ... }, entered once the first loop is left.
DecodeCareful ==
    /\ \/ pc = "decFast" /\ ~FastLoopGuard(SlotsLeft)
       \/ pc = "decCareful"
    /\ SlotsLeft > 0
    /\ \E w \in WordsAt :
          decoded' = decoded \o CarefulUnpacked(w, SlotsLeft) /\ lastWord' = w
    /\ inIdx' = inIdx + 1
    /\ lastLeft' = SlotsLeft
    /\ lastLoop' = "careful"
    /\ pc' = "decCareful"
    /\ UNCHANGED <<mode, T, input, encVars, stream, uncompressedLength,
                   decRet, xformVars>>

\* return out - initout;
DecodeReturn ==
    /\ \/ pc = "decFast" /\ ~FastLoopGuard(SlotsLeft)
       \/ pc = "decCareful"
    /\ ~(SlotsLeft > 0)
    /\ decRet' = Len(decoded)
    /\ pc' = "decoded"
    /\ UNCHANGED <<mode, T, input, encVars, stream, uncompressedLength, inIdx,
                   decoded, lastWord, lastLeft, lastLoop, xformVars>>


(***************************************************************************)
(* The inputs explored.                                                    *)
(***************************************************************************)

\* Slack around the block lengths, and the longest Delta/ZigZag buffer.
MaxSlack == 1
MaxBuffer == 3

\* The integer types the templates are instantiated at: 8, 16, 32, 64 bits.
TWidths == {8, 16, 32, 64}

\* Lengths at and next to the loop thresholds (0, 120, 240) and a short one.
Blocks == {0, 7, 120, 240}
Lengths == {n \in {b + d : b \in Blocks, d \in (0 - MaxSlack) .. MaxSlack} : n >= 0}

\* Zero, one value needing exactly w bits for every scheme width w below 60,
\* the largest 60-bit value, and two values above 60 bits.
TestValues ==
    {{}} \cup {{SchemeWidth[i] - 1} : i \in 3 .. 15}
         \cup {Mask(60), {60}, Mask(WordBits)}

ValuesOf(width) == {v \in TestValues : v \subseteq Mask(width)}

\* The values mixed into a run of another value: one, and the largest of T.
Spikes(width) == {{0}, Mask(width)}

\* zeros leading zeros, then n values: b at every period-th place, a elsewhere.
InputOf(zeros, n, a, b, period) ==
    [i \in 1 .. (zeros + n) |->
        IF i <= zeros THEN {}
        ELSE IF (i - zeros) % period = 0 THEN b ELSE a]

Inputs(width) ==
    {InputOf(z, n, a, a, 1) : z \in {0, 120}, n \in Lengths, a \in ValuesOf(width)}
    \cup
    {InputOf(0, n, a, b, 7) : n \in Lengths, a \in ValuesOf(width), b \in Spikes(width)}

\* The outputLength a caller passes after encoding n values: n itself, or a
\* shorter prefix (none, one value, half, all but the last value).
DecodeLengths(n) == {m \in {n, n \div 2, n - 1, 1, 0} : m >= 0 /\ m <= n}

(***************************************************************************)
(* Encode, then decode what was encoded.                                   *)
(***************************************************************************)

Idle == <<>>

Init ==
    /\ mode = "codec"
    /\ T \in TWidths
    /\ input \in Inputs(T)
    /\ pc = "encFast"
    /\ ValuesRemaining = Len(input)
    /\ NumberOfValuesCoded = 0
    /\ inPos = 0
    /\ outbuf = <<>>
    /\ lastSel = -1
    /\ lastPos = 0
    /\ encRet = -1
    /\ stream = <<>>
    /\ uncompressedLength = 0
    /\ inIdx = 0
    /\ decoded = <<>>
    /\ decRet = -1
    /\ lastWord = {} /\ lastLeft = 0 /\ lastLoop = "none"
    /\ buffer = Idle /\ original = Idle /\ history = <<>>

\* Simple8bDecode(out, m, ...) called on the words Simple8bEncode stored.
DecodeCall ==
    /\ mode = "codec"
    /\ pc = "encoded"
    /\ stream' = outbuf
    /\ uncompressedLength' \in DecodeLengths(Len(input))
    /\ inIdx' = 0
    /\ decoded' = <<>>
    /\ pc' = "decFast"
    /\ UNCHANGED <<mode, T, input, encVars, decRet, lastWord, lastLeft, lastLoop,
                   xformVars>>

Next ==
    \/ EncodeFast
    \/ EncodeCareful
    \/ EncodeReturn
    \/ DecodeCall
    \/ DecodeFast
    \/ DecodeCareful
    \/ DecodeReturn

Spec == Init /\ [][Next]_vars


(***************************************************************************)
(* Decode a stream that no call of Simple8bEncode produced.                *)
(***************************************************************************)

\* Payload bits that give every field of every scheme a value of its own.
Payload == {b \in 0 .. 59 : b % 3 = 0 \/ b % 7 = 0}

\* One word per selector.
ArbitraryWords ==
    {Shl(Nibble(s), WordBits - SIMPLE8B_SELECTOR_BITS) \cup Payload : s \in Selectors}

\* The word patterns a stream repeats: one word, or two in turn.
StreamPatterns ==
    {<<w>> : w \in ArbitraryWords} \cup {<<v, w>> : v \in ArbitraryWords, w \in ArbitraryWords}

\* The output lengths asked for: as the encoder's, and one past two blocks.
OutputLengths == Lengths \cup {2 * 240 + 1}

InitDecode ==
    /\ mode = "decode"
    /\ T \in {8, 64}
    /\ input = <<>>
    /\ pc = "decFast"
    /\ ValuesRemaining = 0
    /\ NumberOfValuesCoded = 0
    /\ inPos = 0
    /\ outbuf = <<>>
    /\ lastSel = -1
    /\ lastPos = 0
    /\ encRet = -1
    /\ stream \in StreamPatterns
    /\ uncompressedLength \in OutputLengths
    /\ inIdx = 0
    /\ decoded = <<>>
    /\ decRet = -1
    /\ lastWord = {} /\ lastLeft = 0 /\ lastLoop = "none"
    /\ buffer = Idle /\ original = Idle /\ history = <<>>

NextDecode ==
    \/ DecodeFast
    \/ DecodeCareful
    \/ DecodeReturn

SpecDecode == InitDecode /\ [][NextDecode]_vars


(***************************************************************************)
(* DeltaEncode, DeltaDecode, ZigZagEncode, ZigZagDecode                    *)
(* (src/simple8b.cpp:527-564), T a signed type of `width` bits held in two's *)
(* complement: bit width - 1 is the sign.                                  *)
(***************************************************************************)

Xor(x, y) == (x \ y) \cup (y \ x)

\* The carry into bit i of x + y + cin.
CarryInto(x, y, i, cin) ==
    \/ cin /\ \A k \in 0 .. (i - 1) : k \in x \/ k \in y
    \/ \E j \in 0 .. (i - 1) :
          /\ j \in x /\ j \in y
          /\ \A k \in (j + 1) .. (i - 1) : k \in x \/ k \in y

\* x + y + cin, kept to `width` bits.
AddWithCarry(x, y, cin, width) ==
    {i \in 0 .. (width - 1) : ((i \in x) # (i \in y)) # CarryInto(x, y, i, cin)}

\* input[i] + input[i - 1] and input[i] - input[i - 1], stored back to a T.
Plus(x, y, width) == AddWithCarry(x, y, FALSE, width)
Minus(x, y, width) == AddWithCarry(x, Mask(width) \ y, TRUE, width)

\* x << n stored back to a T.
ShlT(x, n, width) == {b + n : b \in {c \in x : c + n < width}}

\* x >> n on a signed T: the sign bit is shifted in from the left.
SarT(x, n, width) ==
    Shr(x, n) \cup (IF (width - 1) \in x THEN (width - n) .. (width - 1) ELSE {})

\* -(x & 1LL), stored back to a T.
NegLowBit(x, width) == IF 0 \in x THEN Mask(width) ELSE {}

\* Faulty variant of DeltaEncodeLoop: the loop runs upwards from index 1, so each
\* subtraction reads a predecessor that was already replaced.
RECURSIVE DeltaEncodeUpwards(_, _, _)
DeltaEncodeUpwards(buf, i, width) ==
    IF ~(i < Len(buf)) THEN buf
    ELSE DeltaEncodeUpwards([buf EXCEPT ![i + 1] = Minus(buf[i + 1], buf[i], width)],
                            i + 1, width)

DeltaEncodeLoopForward(buf, i, width) == DeltaEncodeUpwards(buf, 1, width)

\* for (i = length - 1; i > 0; i--) input[i] = input[i] - input[i - 1];
\* i counts in the 0-based indexes of the code; buf is 1-based.
RECURSIVE DeltaEncodeLoop(_, _, _)
DeltaEncodeLoop(buf, i, width) ==
    IF ~(i > 0) THEN buf
    ELSE DeltaEncodeLoop([buf EXCEPT ![i + 1] = Minus(buf[i + 1], buf[i], width)],
                         i - 1, width)

\* for (i = 1; i < length; i++) input[i] = input[i] + input[i - 1];
RECURSIVE DeltaDecodeLoop(_, _, _)
DeltaDecodeLoop(buf, i, width) ==
    IF ~(i < Len(buf)) THEN buf
    ELSE DeltaDecodeLoop([buf EXCEPT ![i + 1] = Plus(buf[i + 1], buf[i], width)],
                         i + 1, width)

\* input[i] = (input[i] << 1LL) ^ (input[i] >> shift), shift = sizeof(T) * 8 - 1
ZigZagEncodeOne(x, width) == Xor(ShlT(x, 1, width), SarT(x, width - 1, width))

\* input[i] = (input[i] >> 1LL) ^ -(input[i] & 1LL)
ZigZagDecodeOne(x, width) == Xor(SarT(x, 1, width), NegLowBit(x, width))

\* The calls follow the pipeline: a transform is applied once, to a buffer
\* no inverse was applied to yet; an inverse undoes the latest transform
\* still standing.
Called(name) == history' = Append(history, name)

TransformFrame == UNCHANGED <<mode, T, input, encVars, decVars, original>>

\* A length (uint64_t) as a 64-bit word; the lengths explored are below 16.
LengthWord(n) == {b \in 0 .. 3 : (n \div (2 ^ b)) % 2 = 1}

\* uint64_t i = length - 1, computed modulo 2^64.
DeltaEncodeStart(length) == Minus(LengthWord(length), {0}, WordBits)

\* input[i] is an element of the buffer: i < length.
IndexInBuffer(i, length) == i \subseteq Mask(4) /\ NibbleValue(i) < length

\* DeltaEncode(buffer, length).  The loop is entered when the start index is
\* above 0.  With length 0 the index starts at length - 1 = 2^64 - 1 and the
\* first iteration reads and writes outside the buffer; the call is not
\* followed further (pc = "outOfBounds").
DeltaEncode ==
    /\ mode = "transform" /\ pc = "idle"
    /\ history \in {<<>>, <<"ZigZagEncode">>}
    /\ LET i == DeltaEncodeStart(Len(buffer))
       IN  IF i # {} /\ ~IndexInBuffer(i, Len(buffer))
           THEN pc' = "outOfBounds" /\ buffer' = buffer
           ELSE pc' = pc /\ buffer' = DeltaEncodeLoop(buffer, Len(buffer) - 1, T)
    /\ Called("DeltaEncode")
    /\ TransformFrame

\* DeltaDecode(buffer, length): after the transforms it undoes, or on its
\* own on an empty buffer.
DeltaDecode ==
    /\ mode = "transform" /\ pc = "idle"
    /\ \/ history \in {<<"DeltaEncode">>, <<"ZigZagEncode", "DeltaEncode">>,
                       <<"DeltaEncode", "ZigZagEncode", "ZigZagDecode">>}
       \/ history = <<>> /\ Len(buffer) = 0
    /\ buffer' = DeltaDecodeLoop(buffer, 1, T)
    /\ pc' = pc
    /\ Called("DeltaDecode")
    /\ TransformFrame

ZigZagEncode ==
    /\ mode = "transform" /\ pc = "idle"
    /\ history \in {<<>>, <<"DeltaEncode">>}
    /\ buffer' = [i \in 1 .. Len(buffer) |-> ZigZagEncodeOne(buffer[i], T)]
    /\ pc' = pc
    /\ Called("ZigZagEncode")
    /\ TransformFrame

ZigZagDecode ==
    /\ mode = "transform" /\ pc = "idle"
    /\ history \in {<<"ZigZagEncode">>, <<"DeltaEncode", "ZigZagEncode">>,
                    <<"ZigZagEncode", "DeltaEncode", "DeltaDecode">>}
    /\ buffer' = [i \in 1 .. Len(buffer) |-> ZigZagDecodeOne(buffer[i], T)]
    /\ pc' = pc
    /\ Called("ZigZagDecode")
    /\ TransformFrame

\* Signed values of a T: 0, 1, -1, the first magnitudes whose zig-zag code
\* needs the top bit, and the two extremes.
SignedValues(width) ==
    {{}, {0}, Mask(width), {width - 2}, Mask(width) \ {width - 2},
     Mask(width - 1), {width - 1}}

BuffersOf(width) ==
    UNION {[1 .. n -> SignedValues(width)] : n \in 0 .. MaxBuffer}

InitTransform ==
    /\ mode = "transform"
    /\ T \in TWidths
    /\ input = <<>>
    /\ pc = "idle"
    /\ ValuesRemaining = 0
    /\ NumberOfValuesCoded = 0
    /\ inPos = 0
    /\ outbuf = <<>>
    /\ lastSel = -1
    /\ lastPos = 0
    /\ encRet = -1
    /\ stream = <<>>
    /\ uncompressedLength = 0
    /\ inIdx = 0
    /\ decoded = <<>>
    /\ decRet = -1
    /\ lastWord = {} /\ lastLeft = 0 /\ lastLoop = "none"
    /\ buffer \in BuffersOf(T)
    /\ original = buffer
    /\ history = <<>>

NextTransform ==
    \/ DeltaEncode
    \/ DeltaDecode
    \/ ZigZagEncode
    \/ ZigZagDecode

SpecTransform == InitTransform /\ [][NextTransform]_vars


(***************************************************************************)
(* Properties.  They speak of values and words directly, through the       *)
(* operators below, not through the operators the actions are built from.  *)
(***************************************************************************)

\* x < 2^w
BelowPow2(x, w) == x \subseteq Mask(w)

\* The w bits of word at offset off from the least significant bit.
Field(word, off, w) == {b - off : b \in {c \in word : c >= off /\ c < off + w}}

\* The selector a word carries in bits [63:60].
SelectorIn(word) == CHOOSE s \in Selectors : Nibble(s) = Field(word, 60, 4)

Zeros(n) == [i \in 1 .. n |-> {}]

AllBelow60 == \A i \in 1 .. Len(input) : BelowPow2(input[i], 60)

RoundTripDone ==
    mode = "codec" /\ pc = "decoded" /\ uncompressedLength = Len(input)

\* The latest word stored by the encoder, and the values left when the
\* iteration that stored it began.
LatestWord == outbuf[Len(outbuf)]
LeftAtLatest == Len(input) - lastPos
Iterated ==
    mode = "codec" /\ lastSel # -1 /\ pc \in {"encFast", "encCareful", "encoded"}

\* C1 as stated: decoding len(x) values from the encoding of x gives back x,
\* for every x of values of T, the values of 2^60 and above of a 64-bit T
\* included.
C1_RoundTripAnyValue == RoundTripDone => decoded = input

\* C1, amended: decoding len(x) values from the encoding of x gives back x,
\* element for element, for every x whose values are all below 2^60.
C1_RoundTripBelow60 ==
    (RoundTripDone /\ AllBelow60) => (decoded = input /\ decRet = Len(input))

C1_Witness ==
    /\ RoundTripDone
    /\ Len(input) = 241
    /\ input[1] = {14} /\ input[7] = Mask(32)
    /\ decoded = input

\* C2: ZigZagDecode applied to the result of ZigZagEncode gives back every
\* value of the signed type, at every width, the values of magnitude
\* 2^(width-2) and above included.
C2_ZigZagRoundTrip ==
    (mode = "transform" /\ history = <<"ZigZagEncode", "ZigZagDecode">>)
        => buffer = original

\* C3: on a buffer of length >= 1, DeltaEncode leaves index 0 as it is and
\* sets every later index i to x[i] - x[i-1] of the original x (modulo 2^w),
\* and DeltaDecode applied to that gives back x.
C3_DeltaRoundTrip ==
    /\ (mode = "transform" /\ history = <<"DeltaEncode">> /\ Len(original) >= 1)
          => /\ Len(buffer) = Len(original)
             /\ buffer[1] = original[1]
             /\ \A i \in 2 .. Len(original) :
                   Plus(buffer[i], original[i - 1], T) = original[i]
    /\ (mode = "transform" /\ history = <<"DeltaEncode", "DeltaDecode">>
          /\ Len(original) >= 1)
          => buffer = original

C3_Witness ==
    /\ mode = "transform"
    /\ history = <<"DeltaEncode", "DeltaDecode">>
    /\ Len(original) = 3
    /\ original[1] = {0} /\ original[2] = {T - 1} /\ original[3] = Mask(T - 1)
    /\ buffer = original

\* C4: on any stream of words and for any outputLength, Simple8bDecode never
\* stores to a slot at index >= outputLength, each word it reads gives
\* min(count of the word's scheme, slots left) values, the unclamped first
\* loop runs only with more than 240 slots left, every iteration stores at
\* least one value (so at most outputLength words are read and the loops
\* end), and the call returns outputLength with exactly that many slots
\* stored.
C4_DecodeBounds ==
    mode = "decode" =>
        /\ Len(decoded) <= uncompressedLength
        /\ inIdx <= Len(decoded)
        /\ pc = "decoded" =>
              decRet = uncompressedLength /\ Len(decoded) = uncompressedLength
        /\ inIdx > 0 =>
              /\ lastLeft >= 1
              /\ Len(decoded) = (uncompressedLength - lastLeft)
                                + Min(CountOf(SelectorIn(lastWord)), lastLeft)
              /\ lastLoop = "fast" => lastLeft > 240

C4_Witness ==
    /\ mode = "decode"
    /\ pc = "decoded"
    /\ uncompressedLength = 481
    /\ inIdx >= 3
    /\ lastLoop = "careful"
    /\ lastLeft < CountOf(SelectorIn(lastWord))

\* C5: for an input of n values Simple8bEncode stores words only to
\* output[0 .. wordsWritten-1], with ceil(n/240) <= wordsWritten <= n; for
\* n = 0 it stores nothing and returns 0.
C5_EncodeBounds ==
    mode = "codec" =>
        /\ pc # "encWrapped"
        /\ Len(outbuf) <= Len(input)
        /\ encRet # -1 =>
              /\ encRet = Len(outbuf)
              /\ encRet <= Len(input)
              /\ 240 * encRet >= Len(input)
              /\ Len(input) = 0 => encRet = 0

C5_Witness ==
    /\ mode = "codec"
    /\ pc = "encoded"
    /\ Len(input) = 241
    /\ encRet = 241

\* C6: 240 zeros encode to the single word 0 and decode back to 240 zeros;
\* where 120 zeros are followed by a non-zero value, the word stored is
\* 1 << 60, it covers those 120 zeros, and encoding goes on at the 121st
\* value.
C6_ZeroRuns ==
    /\ (mode = "codec" /\ input = Zeros(240) /\ encRet # -1)
          => encRet = 1 /\ outbuf = <<{}>>
    /\ (RoundTripDone /\ input = Zeros(240))
          => decoded = Zeros(240) /\ decRet = 240
    /\ (/\ Iterated
        /\ LeftAtLatest >= 121
        /\ \A i \in 1 .. 120 : input[lastPos + i] = {}
        /\ input[lastPos + 121] # {})
          => /\ LatestWord = {60}
             /\ NumberOfValuesCoded = 120
             /\ inPos = lastPos + 120

C6_Witness ==
    /\ Iterated
    /\ LeftAtLatest >= 240
    /\ \A i \in 1 .. 120 : input[lastPos + i] = {}
    /\ input[lastPos + 121] # {}
    /\ LatestWord = {60}

\* C7: every sequence of length 239, 240 or 241 of values below 2^60 is
\* given back by Simple8bDecode, called with that length, from what
\* Simple8bEncode stored.
C7_BoundaryRoundTrip ==
    (RoundTripDone /\ Len(input) \in {239, 240, 241} /\ AllBelow60)
        => decoded = input /\ decRet = Len(input) /\ inIdx = encRet

C7_Witness ==
    /\ RoundTripDone
    /\ Len(input) = 240
    /\ input[240] = Mask(60)
    /\ lastLoop = "careful"
    /\ decoded = input


\* The fit check of scheme s, as C8 reads it: each of the first
\* min(count, r) values at pos is below 2^width; always true at width 60.
StatedFit(s, pos, r) ==
    \/ WidthOf(s) = 60
    \/ \A i \in 1 .. Min(CountOf(s), r) : BelowPow2(input[pos + i], WidthOf(s))

\* Every value of the latest run fits the width of the scheme chosen for it.
LatestRunFits ==
    \A k \in 1 .. NumberOfValuesCoded : BelowPow2(input[lastPos + k], WidthOf(lastSel))

\* The scheme of the latest iteration passes the stated fit check, and no
\* scheme with a lower selector (a larger count) does.
LatestIsGreedy ==
    /\ lastSel \in Selectors
    /\ StatedFit(lastSel, lastPos, LeftAtLatest)
    /\ \A t \in Selectors : t < lastSel => ~StatedFit(t, lastPos, LeftAtLatest)

\* C8 as stated: the scheme emitted is the first, in selector order, whose
\* fit check passes, in both loops alike, and so all the values it codes fit
\* its width.
C8_GreedyAllFit == Iterated => (LatestIsGreedy /\ LatestRunFits)

\* C8, amended: the scheme emitted is the first, in selector order, whose fit
\* check passes, in both loops alike; all the values it codes fit its width
\* when that width is below 60 (width 0 only for all-zero runs), while
\* selector 15 is chosen for a value that no earlier scheme takes whether or
\* not the value is below 2^60.
C8_Greedy ==
    Iterated => /\ LatestIsGreedy
                /\ WidthOf(lastSel) < 60 => LatestRunFits

C8_Witness ==
    /\ Iterated
    /\ LeftAtLatest >= 240
    /\ lastSel = 9
    /\ lastPos = 0
    /\ input[7] = Mask(8)
    /\ StatedFit(10, lastPos, LeftAtLatest)

\* The selector, the count and the zero padding of the latest word: bits
\* [63:60] hold the selector, m = min(count, values left) values are coded,
\* and every bit below the m fields is zero.
LatestFrame ==
    /\ lastSel \in Selectors
    /\ NumberOfValuesCoded = Min(CountOf(lastSel), LeftAtLatest)
    /\ Field(LatestWord, 60, 4) = Nibble(lastSel)
    /\ \A b \in LatestWord :
          b >= 60 - WidthOf(lastSel) * NumberOfValuesCoded

\* Bit offset of field k of a word of scheme s: 64 - 4 - width - k * width.
FieldOffset(s, k) == 60 - WidthOf(s) - k * WidthOf(s)

\* C9 as stated: every word emitted carries its selector in bits [63:60],
\* value k of its run in the width bits at offset 64 - 4 - width - k*width,
\* and zero in every other low-order bit; the run is count values long, or
\* what is left of the input on the last word.
C9_LayoutExact ==
    Iterated =>
        /\ LatestFrame
        /\ \A k \in 0 .. (NumberOfValuesCoded - 1) :
              Field(LatestWord, FieldOffset(lastSel, k), WidthOf(lastSel))
                  = input[lastPos + k + 1]

\* C9, amended: as stated, but field k holds the low width bits of value k:
\* the value itself whenever it is below 2^width, which only a value of 2^60
\* or above under selector 15 is not.
C9_LayoutLowBits ==
    Iterated =>
        /\ LatestFrame
        /\ \A k \in 0 .. (NumberOfValuesCoded - 1) :
              /\ Field(LatestWord, FieldOffset(lastSel, k), WidthOf(lastSel))
                    = input[lastPos + k + 1] \cap Mask(WidthOf(lastSel))
              /\ (lastSel # 15 \/ BelowPow2(input[lastPos + k + 1], 60))
                    => BelowPow2(input[lastPos + k + 1], WidthOf(lastSel))

C9_Witness ==
    /\ Iterated
    /\ lastSel = 2
    /\ NumberOfValuesCoded = 7
    /\ LeftAtLatest = 7
    /\ LatestWord = Shl(Nibble(2), 60) \cup (53 .. 59)

\* C10: whatever the input values, those of 2^60 and above included, some
\* branch other than the empty else is taken in every iteration of both
\* loops, the word stored codes between 1 and 240 values, and the input
\* cursor and ValuesRemaining move by the count set in that same iteration.
C10_NoExhaustion ==
    mode = "codec" =>
        /\ pc # "encWrapped"
        /\ lastSel # NoScheme
        /\ lastSel # -1 =>
              /\ NumberOfValuesCoded \in 1 .. 240
              /\ NumberOfValuesCoded = Min(CountOf(lastSel), LeftAtLatest)
              /\ inPos = lastPos + NumberOfValuesCoded
              /\ Len(input) - ValuesRemaining = inPos

C10_Witness ==
    /\ Iterated
    /\ LeftAtLatest >= 240
    /\ lastSel = 15
    /\ ~BelowPow2(input[lastPos + 1], 60)
    /\ NumberOfValuesCoded = 1

\* What a call of Simple8bDecode on the encoder's words has stored so far is
\* the values of the input at the same places.
DecodedIsPrefix ==
    /\ Len(decoded) <= Len(input)
    /\ \A i \in 1 .. Len(decoded) : decoded[i] = input[i]

Decoding == mode = "codec" /\ pc \in {"decFast", "decCareful", "decoded"}

\* C11: for every x of values below 2^60 and every m in 0 .. len(x),
\* Simple8bDecode called with m on the words Simple8bEncode stored for x
\* returns m, stores exactly the first m values of x, and reads none but
\* the words the encoder stored.
C11_TruncatedDecode ==
    (Decoding /\ AllBelow60) =>
        /\ uncompressedLength <= Len(input)
        /\ DecodedIsPrefix
        /\ Len(decoded) <= uncompressedLength
        /\ inIdx <= Len(stream)
        /\ inIdx > 0 => lastWord = stream[inIdx]
        /\ pc = "decoded" =>
              decRet = uncompressedLength /\ Len(decoded) = uncompressedLength

C11_Witness ==
    /\ Decoding /\ AllBelow60
    /\ pc = "decoded"
    /\ Len(input) = 241
    /\ uncompressedLength = 120
    /\ decRet = 120
    /\ inIdx < Len(stream)
    /\ lastLeft < CountOf(SelectorIn(lastWord))
    /\ input[7] = Mask(8)
    /\ DecodedIsPrefix

\* C12: DeltaEncode and DeltaDecode called with length 0 address no element
\* (none exists: every index is >= length) and return at once, leaving the
\* empty buffer as it was, so the round trip holds for the empty sequence.
C12_EmptyBuffer ==
    (/\ mode = "transform"
     /\ Len(original) = 0
     /\ history # <<>>
     /\ \A k \in 1 .. Len(history) : history[k] \in {"DeltaEncode", "DeltaDecode"})
        => pc = "idle" /\ buffer = original

====
